---- MODULE Spec2Model ----
(***************************************************************************)
(* Model of the chisel client (client/client.go): the lifecycle            *)
(* (Start / Wait / Close), the connection loop with its backoff, and one   *)
(* connection attempt (connectionOnce) with its suspension points.         *)
(*                                                                         *)
(* Durations are counted in ticks of 100ms, the default Min of             *)
(* backoff.Backoff: one second is 10 ticks, five minutes are 3000.         *)
(***************************************************************************)
EXTENDS Integers, Sequences, FiniteSets, TLC

\* ------------------------------------------------------------------ bounds
\* Consecutive retriable failures the environment produces while the shared
\* scope is still open (the backoff attempt counter is unbounded in the code).
MaxFailures == 5

\* ------------------------------------------------------- program constants
Second == 10
DefaultMaxRetryInterval == 3000
BackoffMin == 1
BackoffFactor == 2

\* ------------------------------------------------------------ input domains
RetryCounts == {-1, 0, 1, 2}
RetryIntervals == {0, 10, 25}
ProxySchemes == {<<>>, <<"h","t","t","p">>, <<"s","o","c","k","s">>,
                 <<"s","o","c","k","s","4">>}
Fingerprints == {<<>>, <<"a","b">>}
ServerKeys == {<<"a","b","c">>, <<"z","z">>}

HandshakeErrors == {"auth", "net_perm", "net_temp", "other"}
BindResults == {"nil", "net_perm", "net_temp", "other"}

VARIABLES
    config,        \* c.config after NewClient, and c.proxyURL's scheme
    stop,          \* c.stop # nil (set by Start)
    callerDone,    \* the context passed to Start was cancelled
    stopDone,      \* the scope of Start's WithCancel was cancelled by c.stop
    egDone,        \* the errgroup's scope was cancelled by the group itself
    egErr,         \* the errgroup's first error
    loopPc,        \* position of the connectionLoop task
    loopErr,       \* result of connectionLoop ("none" while it runs)
    bindPc,        \* position of the BindRemotes task
    waitPc,        \* position of a caller of Wait
    waitErr,       \* result of Wait
    connected,     \* results of the last connectionOnce
    retry,
    err,
    attempt,       \* b.attempt of the loop's backoff
    delay,         \* d, the last computed retry delay
    attemptScopes, \* scopes made by connectionOnce's WithCancel, not yet cancelled
    sshOpen,       \* secure connections opened and not yet closed
    sessions,      \* calls of tunnel.BindSSH in progress
    bindCalled,    \* BindSSH was invoked by the current attempt
    fails,         \* history: consecutive attempts that did not reach Connected
    prevDelay,     \* history: the delay before `delay` in the same run of failures
    resetFrom,     \* history: b.attempt before the Reset that preceded `delay`, or -1
    lateDials,     \* history: dials issued while the shared scope was cancelled
    closeRet,      \* result of the last call of Close by the embedding caller
    input,         \* the Config handed to NewClient and the key shown to verifyServer
    built,         \* what NewClient returned
    verified       \* what verifyServer returned

vars == <<config, stop, callerDone, stopDone, egDone, egErr, loopPc, loopErr,
          bindPc, waitPc, waitErr, connected, retry, err, attempt, delay,
          attemptScopes, sshOpen, sessions, bindCalled, fails, prevDelay,
          resetFrom, lateDials, closeRet, input, built, verified>>

lifeVars == <<stop, callerDone, stopDone, egDone, egErr, bindPc, waitPc, waitErr>>
histVars == <<fails, prevDelay, resetFrom, lateDials>>
ctorVars == <<input, built, verified>>

\* ------------------------------------------------------------ pure helpers
Min2(a, b) == IF a < b THEN a ELSE b

RECURSIVE Pow(_, _)
Pow(b, n) == IF n = 0 THEN 1 ELSE b * Pow(b, n - 1)

\* strings.HasPrefix
HasPrefix(s, p) == Len(p) <= Len(s) /\ SubSeq(s, 1, Len(p)) = p

\* variant: a ceiling of exactly one second is replaced as well
EffectiveMaxRetryIntervalLE(d) == IF d <= Second THEN DefaultMaxRetryInterval ELSE d

\* NewClient: a retry ceiling below one second is replaced by five minutes
EffectiveMaxRetryInterval(d) == IF d < Second THEN DefaultMaxRetryInterval ELSE d

\* variant: the delay is not capped
ForAttemptNoCap(a, max) == BackoffMin * Pow(BackoffFactor, a)

\* backoff.Backoff.ForAttempt with Min, Factor at their defaults and no jitter.
\* (Its guard against a float64 beyond the int64 range also returns max; the
\* product stays far below that range for every attempt count explored here.)
ForAttempt(a, max) ==
    IF BackoffMin >= max THEN max
    ELSE LET dur == BackoffMin * Pow(BackoffFactor, a)
         IN  IF dur < BackoffMin THEN BackoffMin
             ELSE IF dur > max THEN max ELSE dur

\* variant: the whole fingerprint has to match
VerifyServerExact(expect, got) == expect = <<>> \/ got = expect

\* Client.verifyServer: nil exactly when this holds
VerifyServer(expect, got) == ~(expect # <<>> /\ ~HasPrefix(got, expect))

\* Client.setProxy: nil exactly when this holds
SetProxyOK(scheme) ==
    IF ~HasPrefix(scheme, <<"s","o","c","k","s">>) THEN TRUE
    ELSE scheme = <<"s","o","c","k","s">> \/ scheme = <<"s","o","c","k","s","5","h">>

\* how connectionOnce inspects an error
ContainsUnableToAuthenticate(e) == e = "auth"
IsNetError(e) == e \in {"net_perm", "net_temp"}
Temporary(e) == e = "net_temp"

\* variant: every handshake failure is retried
HandshakeRetryAlways(e) == TRUE

\* connectionOnce: retry flag after a failed ssh.NewClientConn
HandshakeRetry(e) ==
    IF ContainsUnableToAuthenticate(e) THEN FALSE
    ELSE IF IsNetError(e) /\ ~Temporary(e) THEN FALSE
    ELSE TRUE

\* variant: a session that ended without an error is not retried
SessionRetryOnError(e) == e # "nil" /\ ~(IsNetError(e) /\ ~Temporary(e))

\* connectionOnce: retry flag after tunnel.BindSSH returned
SessionRetry(e) == ~(IsNetError(e) /\ ~Temporary(e))

\* variant: the cancel function that Close calls does not reach the scope
ctxDoneWithoutStop == callerDone \/ egDone

\* the scope the two tasks run in
ctxDone == callerDone \/ stopDone \/ egDone

\* the environment may produce another retriable failure (after a cancellation
\* the loop computes at most one more delay)
CanFail == attempt < MaxFailures + (IF ctxDone THEN 1 ELSE 0)

\* the construction is not followed here: Init is the state after it
NoInput == [Server |-> <<>>, MaxRetryInterval |-> 0, Remotes |-> <<>>,
            Proxy |-> <<>>, Fingerprint |-> <<>>, Key |-> <<>>]
NotBuilt == [called |-> FALSE]
NotVerified == [called |-> FALSE]

\* ---------------------------------------------------------------- initial
Init ==
    /\ config \in [MaxRetryCount : RetryCounts,
                   MaxRetryInterval : {EffectiveMaxRetryInterval(d) : d \in RetryIntervals},
                   Proxy : ProxySchemes,
                   Fingerprint : Fingerprints]
    /\ stop = FALSE
    /\ callerDone = FALSE /\ stopDone = FALSE /\ egDone = FALSE
    /\ egErr = "nil"
    /\ loopPc = "off" /\ loopErr = "none"
    /\ bindPc = "off"
    /\ waitPc = "idle" /\ waitErr = "none"
    /\ connected = FALSE /\ retry = FALSE /\ err = "nil"
    /\ attempt = 0 /\ delay = 0
    /\ attemptScopes = 0 /\ sshOpen = 0 /\ sessions = 0
    /\ bindCalled = FALSE
    /\ fails = 0 /\ prevDelay = 0 /\ resetFrom = -1 /\ lateDials = 0
    /\ closeRet = "none"
    /\ input = NoInput /\ built = NotBuilt /\ verified = NotVerified

\* ------------------------------------------------------------- lifecycle
\* variant: an error of a task does not cancel the group's scope
GroupDoneNever(e) == egDone

\* errgroup: the first non-nil error of a task is kept and cancels the scope
GroupErr(e) == IF egErr = "nil" THEN e ELSE egErr
GroupDone(e) == egDone \/ e # "nil"

\* Client.Start: one scope, two tasks
Start ==
    /\ ~stop
    /\ stop' = TRUE
    /\ loopPc' = "once"
    /\ bindPc' = "running"
    /\ UNCHANGED <<config, ctorVars, closeRet, callerDone, stopDone, egDone, egErr, loopErr, waitPc,
                   waitErr, connected, retry, err, attempt, delay, attemptScopes,
                   sshOpen, sessions, bindCalled, histVars>>

\* the caller cancels the context it gave to Start (Run's deferred cancel)
CallerCancel ==
    /\ ~callerDone
    /\ callerDone' = TRUE
    /\ UNCHANGED <<config, ctorVars, closeRet, stop, stopDone, egDone, egErr, loopPc, loopErr, bindPc,
                   waitPc, waitErr, connected, retry, err, attempt, delay,
                   attemptScopes, sshOpen, sessions, bindCalled, histVars>>

\* variant: Close calls c.stop without testing it for nil
CloseResultUnguarded(started) == IF started THEN "nil" ELSE "panic"

\* what Close returns, c.stop being set or not
CloseResult(started) == "nil"

\* Client.Close
Close ==
    /\ stopDone' = (IF stop THEN TRUE ELSE stopDone)
    /\ closeRet' = CloseResult(stop)
    /\ UNCHANGED <<config, ctorVars, stop, callerDone, egDone, egErr, loopPc, loopErr, bindPc,
                   waitPc, waitErr, connected, retry, err, attempt, delay,
                   attemptScopes, sshOpen, sessions, bindCalled, histVars>>

\* tunnel.BindRemotes returns, with or without an error
BinderReturn ==
    /\ bindPc = "running"
    /\ \E e \in {"nil", "bind"} :
          /\ egErr' = GroupErr(e)
          /\ egDone' = GroupDone(e)
    /\ bindPc' = "done"
    /\ UNCHANGED <<config, ctorVars, closeRet, stop, callerDone, stopDone, loopPc, loopErr, waitPc,
                   waitErr, connected, retry, err, attempt, delay, attemptScopes,
                   sshOpen, sessions, bindCalled, histVars>>

\* Client.Wait is called
WaitCall ==
    /\ stop
    /\ waitPc = "idle"
    /\ waitPc' = "waiting"
    /\ UNCHANGED <<config, ctorVars, closeRet, stop, callerDone, stopDone, egDone, egErr, loopPc,
                   loopErr, bindPc, waitErr, connected, retry, err, attempt, delay,
                   attemptScopes, sshOpen, sessions, bindCalled, histVars>>

\* Client.Wait returns: both tasks are over
WaitReturn ==
    /\ waitPc = "waiting"
    /\ loopPc = "done" /\ bindPc = "done"
    /\ waitPc' = "returned"
    /\ waitErr' = egErr
    /\ egDone' = TRUE
    /\ UNCHANGED <<config, ctorVars, closeRet, stop, callerDone, stopDone, egErr, loopPc, loopErr,
                   bindPc, connected, retry, err, attempt, delay, attemptScopes,
                   sshOpen, sessions, bindCalled, histVars>>

\* --------------------------------------------------------- connectionOnce
\* variant: connectionOnce without the check at its top
AlreadyClosedNever == FALSE

\* the select at the top of connectionOnce
AlreadyClosed == ctxDone

\* connectionOnce returns after its scope was made: the deferred cancel runs
ReturnOnce(c, r, e) ==
    /\ connected' = c
    /\ retry' = r
    /\ err' = e
    /\ attemptScopes' = attemptScopes - 1
    /\ fails' = (IF c THEN 0 ELSE fails + 1)
    /\ loopPc' = "decide"

\* connectionOnce is entered: already closed?
OnceCheck ==
    /\ loopPc = "once"
    /\ IF AlreadyClosed
       THEN /\ connected' = FALSE /\ retry' = FALSE /\ err' = "EOF"
            /\ loopPc' = "decide"
            /\ bindCalled' = FALSE
            /\ UNCHANGED attemptScopes
       ELSE /\ attemptScopes' = attemptScopes + 1
            /\ bindCalled' = FALSE
            /\ loopPc' = "prepare"
            /\ UNCHANGED <<connected, retry, err>>
    /\ UNCHANGED <<config, ctorVars, closeRet, lifeVars, loopErr, attempt, delay, sshOpen, sessions,
                   histVars>>

\* the dialer is prepared (setProxy) and DialContext is called
PrepareDial ==
    /\ loopPc = "prepare"
    /\ IF config.Proxy # <<>> /\ ~SetProxyOK(config.Proxy)
       THEN /\ ReturnOnce(FALSE, FALSE, "proxy")
            /\ UNCHANGED lateDials
       ELSE /\ loopPc' = "dialing"
            /\ lateDials' = (IF ctxDone THEN Min2(lateDials + 1, 2) ELSE lateDials)
            /\ UNCHANGED <<connected, retry, err, attemptScopes, fails>>
    /\ UNCHANGED <<config, ctorVars, closeRet, lifeVars, loopErr, attempt, delay, sshOpen, sessions,
                   bindCalled, prevDelay, resetFrom>>

\* DialContext returns
DialReturn ==
    /\ loopPc = "dialing"
    /\ \/ /\ loopPc' = "handshaking"
          /\ UNCHANGED <<connected, retry, err, attemptScopes, fails>>
       \/ /\ CanFail
          /\ ReturnOnce(FALSE, TRUE, "dial")
    /\ UNCHANGED <<config, ctorVars, closeRet, lifeVars, loopErr, attempt, delay, sshOpen, sessions,
                   bindCalled, prevDelay, resetFrom, lateDials>>

\* ssh.NewClientConn returns; the server presented the key `got`, if any
HandshakeReturn ==
    /\ loopPc = "handshaking"
    /\ \E got \in ServerKeys :
          \/ /\ VerifyServer(config.Fingerprint, got)
             /\ loopPc' = "negotiating"
             /\ sshOpen' = sshOpen + 1
             /\ UNCHANGED <<connected, retry, err, attemptScopes, fails>>
          \/ /\ ~VerifyServer(config.Fingerprint, got)
             /\ HandshakeRetry("fingerprint") => CanFail
             /\ ReturnOnce(FALSE, HandshakeRetry("fingerprint"), "fingerprint")
             /\ UNCHANGED sshOpen
          \/ \E e \in HandshakeErrors :
                /\ HandshakeRetry(e) => CanFail
                /\ ReturnOnce(FALSE, HandshakeRetry(e), e)
                /\ UNCHANGED sshOpen
    /\ UNCHANGED <<config, ctorVars, closeRet, lifeVars, loopErr, attempt, delay, sessions, bindCalled,
                   prevDelay, resetFrom, lateDials>>

\* the reply payloads of the "config" request
ConfigReplies == {<<>>, <<"x">>}

\* variant: the session is handed over without blocking on it
ConfigReplyDetached ==
    /\ loopPc = "negotiating"
    /\ \E sendFailed \in BOOLEAN, configerr \in ConfigReplies :
          IF sendFailed
          THEN /\ ReturnOnce(FALSE, FALSE, "config_send")
               /\ sshOpen' = sshOpen - 1
               /\ UNCHANGED <<sessions, bindCalled>>
          ELSE IF Len(configerr) > 0
          THEN /\ ReturnOnce(FALSE, FALSE, "config_reject")
               /\ sshOpen' = sshOpen - 1
               /\ UNCHANGED <<sessions, bindCalled>>
          ELSE /\ ReturnOnce(TRUE, TRUE, "nil")
               /\ sessions' = sessions + 1
               /\ bindCalled' = TRUE
               /\ UNCHANGED sshOpen
    /\ UNCHANGED <<config, ctorVars, closeRet, lifeVars, loopErr, attempt, delay, prevDelay, resetFrom,
                   lateDials>>

\* variant: a failed negotiation is retried
ConfigReplyRetriable ==
    /\ loopPc = "negotiating"
    /\ \E sendFailed \in BOOLEAN, configerr \in ConfigReplies :
          IF sendFailed
          THEN /\ CanFail
               /\ ReturnOnce(FALSE, TRUE, "config_send")
               /\ sshOpen' = sshOpen - 1
               /\ UNCHANGED <<sessions, bindCalled>>
          ELSE IF Len(configerr) > 0
          THEN /\ CanFail
               /\ ReturnOnce(FALSE, TRUE, "config_reject")
               /\ sshOpen' = sshOpen - 1
               /\ UNCHANGED <<sessions, bindCalled>>
          ELSE /\ loopPc' = "bound"
               /\ sessions' = sessions + 1
               /\ bindCalled' = TRUE
               /\ UNCHANGED <<connected, retry, err, attemptScopes, fails, sshOpen>>
    /\ UNCHANGED <<config, ctorVars, closeRet, lifeVars, loopErr, attempt, delay, prevDelay, resetFrom,
                   lateDials>>

\* sshConn.SendRequest("config") returns; on success BindSSH is called
ConfigReply ==
    /\ loopPc = "negotiating"
    /\ \E sendFailed \in BOOLEAN, configerr \in ConfigReplies :
          IF sendFailed
          THEN /\ ReturnOnce(FALSE, FALSE, "config_send")
               /\ sshOpen' = sshOpen - 1
               /\ UNCHANGED <<sessions, bindCalled>>
          ELSE IF Len(configerr) > 0
          THEN /\ ReturnOnce(FALSE, FALSE, "config_reject")
               /\ sshOpen' = sshOpen - 1
               /\ UNCHANGED <<sessions, bindCalled>>
          ELSE /\ loopPc' = "bound"
               /\ sessions' = sessions + 1
               /\ bindCalled' = TRUE
               /\ UNCHANGED <<connected, retry, err, attemptScopes, fails, sshOpen>>
    /\ UNCHANGED <<config, ctorVars, closeRet, lifeVars, loopErr, attempt, delay, prevDelay, resetFrom,
                   lateDials>>

\* variant: the secure connection is not closed when the session is over
BindReturnLeak ==
    /\ loopPc = "bound"
    /\ \E e \in BindResults : ReturnOnce(TRUE, SessionRetry(e), e)
    /\ sessions' = sessions - 1
    /\ UNCHANGED <<config, ctorVars, closeRet, lifeVars, loopErr, attempt, delay, bindCalled, prevDelay,
                   resetFrom, lateDials, sshOpen>>

\* tunnel.BindSSH returns: the session is over
BindReturn ==
    /\ loopPc = "bound"
    /\ \E e \in BindResults : ReturnOnce(TRUE, SessionRetry(e), e)
    /\ sessions' = sessions - 1
    /\ sshOpen' = sshOpen - 1
    /\ UNCHANGED <<config, ctorVars, closeRet, lifeVars, loopErr, attempt, delay, bindCalled, prevDelay,
                   resetFrom, lateDials, closeRet, input, built, verified>>

\* --------------------------------------------------------- connectionLoop
\* variant: the backoff is never reset
AttemptAfterNoReset(c, a) == a

\* b.Attempt() after the optional b.Reset()
AttemptAfter(c, a) == IF c THEN 0 ELSE a

\* variant: the budget comparison is off by one
GiveUpOffByOne(r, a, maxAttempt) == ~r \/ (maxAttempt >= 0 /\ a > maxAttempt)

\* give up?
GiveUp(r, a, maxAttempt) == ~r \/ (maxAttempt >= 0 /\ a >= maxAttempt)

\* variant: the loop returns the last connection error
LoopResultErr(e) == e

\* what connectionLoop returns
LoopResult(e) == "nil"

\* the loop body after connectionOnce returned, up to the select
Decide ==
    /\ loopPc = "decide"
    /\ LET a == AttemptAfter(connected, attempt)
       IN  IF GiveUp(retry, a, config.MaxRetryCount)
           THEN /\ attempt' = a
                /\ loopPc' = "giveup"
                /\ resetFrom' = -1
                /\ UNCHANGED <<connected, retry, err, delay, prevDelay>>
           ELSE /\ delay' = ForAttempt(a, config.MaxRetryInterval)
                /\ attempt' = a + 1
                /\ prevDelay' = (IF connected THEN 0 ELSE delay)
                /\ resetFrom' = (IF connected THEN attempt ELSE -1)
                /\ connected' = FALSE /\ retry' = FALSE /\ err' = "nil"
                /\ loopPc' = "sleep"
    /\ UNCHANGED <<config, ctorVars, closeRet, lifeVars, loopErr, attemptScopes, sshOpen, sessions,
                   bindCalled, fails, lateDials>>

\* the select: the delay elapsed, retry now
SleepTimer ==
    /\ loopPc = "sleep"
    /\ loopPc' = "once"
    /\ resetFrom' = -1
    /\ UNCHANGED <<config, ctorVars, closeRet, lifeVars, loopErr, connected, retry, err, attempt, delay,
                   attemptScopes, sshOpen, sessions, bindCalled, fails, prevDelay,
                   lateDials>>

\* the select: the scope was cancelled, return nil
SleepCancelled ==
    /\ loopPc = "sleep"
    /\ ctxDone
    /\ loopPc' = "done"
    /\ loopErr' = "nil"
    /\ resetFrom' = -1
    /\ UNCHANGED <<config, ctorVars, closeRet, lifeVars, connected, retry, err, attempt, delay,
                   attemptScopes, sshOpen, sessions, bindCalled, fails, prevDelay,
                   lateDials>>

\* variant: the loop returns after the break without calling Close
GiveUpNoClose ==
    /\ loopPc = "giveup"
    /\ loopErr' = LoopResult(err)
    /\ egErr' = GroupErr(LoopResult(err))
    /\ egDone' = GroupDone(LoopResult(err))
    /\ loopPc' = "done"
    /\ UNCHANGED <<config, ctorVars, closeRet, stop, callerDone, stopDone, bindPc, waitPc, waitErr,
                   connected, retry, err, attempt, delay, attemptScopes, sshOpen,
                   sessions, bindCalled, histVars>>

\* after the break: c.Close() and return
GiveUpClose ==
    /\ loopPc = "giveup"
    /\ stopDone' = (IF stop THEN TRUE ELSE stopDone)
    /\ loopErr' = LoopResult(err)
    /\ egErr' = GroupErr(LoopResult(err))
    /\ egDone' = GroupDone(LoopResult(err))
    /\ loopPc' = "done"
    /\ UNCHANGED <<config, ctorVars, closeRet, stop, callerDone, bindPc, waitPc, waitErr, connected,
                   retry, err, attempt, delay, attemptScopes, sshOpen, sessions,
                   bindCalled, histVars>>

\* ---------------------------------------------------------- specification
Next ==
    \/ Start
    \/ CallerCancel
    \/ Close
    \/ BinderReturn
    \/ WaitCall
    \/ WaitReturn
    \/ OnceCheck
    \/ PrepareDial
    \/ DialReturn
    \/ HandshakeReturn
    \/ ConfigReply
    \/ BindReturn
    \/ Decide
    \/ SleepTimer
    \/ SleepCancelled
    \/ GiveUpClose

Spec == Init /\ [][Next]_vars

\* the type of the state
TypeOK ==
    /\ config.MaxRetryCount \in RetryCounts
    /\ config.MaxRetryInterval >= Second
    /\ stop \in BOOLEAN /\ callerDone \in BOOLEAN /\ stopDone \in BOOLEAN
    /\ egDone \in BOOLEAN
    /\ loopPc \in {"off", "once", "prepare", "dialing", "handshaking", "negotiating",
                   "bound", "decide", "sleep", "giveup", "done"}
    /\ bindPc \in {"off", "running", "done"}
    /\ waitPc \in {"idle", "waiting", "returned"}
    /\ connected \in BOOLEAN /\ retry \in BOOLEAN
    /\ attempt \in 0..(MaxFailures + 1)
    /\ fails \in 0..(MaxFailures + 2)
    /\ delay \in 0..config.MaxRetryInterval

\* ---------------------------------------------- inputs of the construction
\* remote specs in one configuration
MaxRemotes == 3

HTTP == <<"h","t","t","p">>
InvalidFingerprint == <<"I","n","v","a","l","i","d"," ","f","i","n","g","e","r","p","r","i","n","t"," ","(">>

Servers == {<<"e","x","a","m","p","l","e",".","c","o","m">>,
            <<"e","x",":","8","0","8","0">>,
            <<"h","t","t","p",":","/","/","e","x">>,
            <<"h","t","t","p","s",":","/","/","e","x">>,
            <<"h","t","t","p","s",":","/","/","e","x",":","8","4","4","3">>,
            <<"h","t","t","p","b","i","n",".","o","r","g">>,
            <<"h","t","t","p",":","/","/","e","x",":","x">>}
CtorIntervals == {-10, 0, 9, 10, 25}
RawRemotes == {"3000", "3000:socks", "R:socks", "stdio:ex:22", "bad"}
Proxies == {<<>>,
            <<"h","t","t","p",":","/","/","p","x",":","3","1","2","8">>,
            <<"s","o","c","k","s",":","/","/","p","x",":","1","0","8","0">>,
            <<"s","o","c","k","s","4",":","/","/","p","x",":","1","0","8","0">>,
            <<"1","0",".","0",".","0",".","1",":","3","1","2","8">>}
ExpectedFingerprints == {<<>>, <<"a","b",":","c","d">>}
PresentedKeys == {<<"a","b",":","c","d",":","e","f",":","0","0">>, <<"z","z",":","z","z">>, <<"a","b",":","c","d">>, <<"a","b">>}

\* ------------------------------------------------------------- NewClient
\* Strings are sequences of characters.
Letters == {"a","b","c","d","e","f","g","h","i","j","k","l","m","n","o","p","q",
            "r","s","t","u","v","w","x","y","z"}
Digits == {"0","1","2","3","4","5","6","7","8","9"}

\* strings.Index, counted from 1; 0 when p does not occur
IndexOf(s, p) ==
    LET I == {i \in 1..(Len(s) - Len(p) + 1) : SubSeq(s, i, i + Len(p) - 1) = p}
    IN  IF I = {} THEN 0 ELSE CHOOSE i \in I : \A j \in I : i <= j

\* strings.LastIndex, counted from 1; 0 when p does not occur
LastIndexOf(s, p) ==
    LET I == {i \in 1..(Len(s) - Len(p) + 1) : SubSeq(s, i, i + Len(p) - 1) = p}
    IN  IF I = {} THEN 0 ELSE CHOOSE i \in I : \A j \in I : i >= j

\* strings.Contains
Contains(s, p) == IndexOf(s, p) # 0

\* strings.Replace(s, old, new, 1)
ReplaceFirst(s, old, new) ==
    LET i == IndexOf(s, old)
    IN  IF i = 0 THEN s
        ELSE SubSeq(s, 1, i - 1) \o new \o SubSeq(s, i + Len(old), Len(s))

\* net/url getScheme: the scheme ends at the first colon, unless a character
\* that no scheme can hold comes first
GetScheme(s) ==
    LET stops == {i \in 1..Len(s) :
                     /\ s[i] \notin Letters
                     /\ ~(i > 1 /\ s[i] \in Digits \cup {"+", "-", "."})}
    IN  IF stops = {} THEN [ok |-> TRUE, scheme |-> <<>>, rest |-> s]
        ELSE LET i == CHOOSE k \in stops : \A j \in stops : k <= j
             IN  IF s[i] # ":" THEN [ok |-> TRUE, scheme |-> <<>>, rest |-> s]
                 ELSE IF i = 1 THEN [ok |-> FALSE, scheme |-> <<>>, rest |-> s]
                 ELSE [ok |-> TRUE, scheme |-> SubSeq(s, 1, i - 1),
                       rest |-> SubSeq(s, i + 1, Len(s))]

\* net/url validOptionalPort, for the part of the host from its last colon on
ValidOptionalPort(host) ==
    LET i == LastIndexOf(host, <<":">>)
    IN  i = 0 \/ \A k \in (i + 1)..Len(host) : host[k] \in Digits

\* url.Parse for strings without user info, query or fragment
ParseURL(s) ==
    LET g == GetScheme(s)
        slash == IndexOf(g.rest, <<"/">>)
        segment == IF slash = 0 THEN g.rest ELSE SubSeq(g.rest, 1, slash - 1)
        afterSlashes == SubSeq(g.rest, 3, Len(g.rest))
        cut == IndexOf(afterSlashes, <<"/">>)
        authority == IF cut = 0 THEN afterSlashes ELSE SubSeq(afterSlashes, 1, cut - 1)
        failed == [ok |-> FALSE, scheme |-> <<>>, host |-> <<>>]
    IN  IF ~g.ok THEN failed
        ELSE IF ~HasPrefix(g.rest, <<"/">>) /\ g.scheme # <<>>
        THEN [ok |-> TRUE, scheme |-> g.scheme, host |-> <<>>]
        ELSE IF ~HasPrefix(g.rest, <<"/">>) /\ Contains(segment, <<":">>)
        THEN failed
        ELSE IF HasPrefix(g.rest, <<"/", "/">>)
                /\ (g.scheme # <<>> \/ ~HasPrefix(g.rest, <<"/", "/", "/">>))
        THEN IF ValidOptionalPort(authority)
             THEN [ok |-> TRUE, scheme |-> g.scheme, host |-> authority]
             ELSE failed
        ELSE [ok |-> TRUE, scheme |-> g.scheme, host |-> <<>>]

\* regexp `:\d+$`
HasPort(host) ==
    LET i == LastIndexOf(host, <<":">>)
    IN  i # 0 /\ i < Len(host) /\ \A k \in (i + 1)..Len(host) : host[k] \in Digits

\* settings.DecodeRemote on the remote specs used here
DecodeRemote(s) ==
    [spec |-> s,
     ok |-> s # "bad",
     Socks |-> s \in {"3000:socks", "R:socks"},
     Reverse |-> s = "R:socks",
     Stdio |-> s = "stdio:ex:22"]

NoFlags == [hasReverse |-> FALSE, hasSocks |-> FALSE, hasStdio |-> FALSE]

\* variant: a second stdio remote is accepted
RECURSIVE ProcessRemotesAnyStdio(_, _, _, _)
ProcessRemotesAnyStdio(specs, i, acc, flags) ==
    IF i > Len(specs) THEN [err |-> "nil", remotes |-> acc, flags |-> flags]
    ELSE LET r == DecodeRemote(specs[i])
         IN  IF ~r.ok THEN [err |-> "remote", remotes |-> <<>>, flags |-> flags]
             ELSE ProcessRemotesAnyStdio(specs, i + 1, Append(acc, r),
                      [hasReverse |-> flags.hasReverse \/ r.Reverse,
                       hasSocks |-> flags.hasSocks \/ r.Socks,
                       hasStdio |-> flags.hasStdio \/ r.Stdio])

\* NewClient: the loop over c.Remotes, from the i-th spec on
RECURSIVE ProcessRemotes(_, _, _, _)
ProcessRemotes(specs, i, acc, flags) ==
    IF i > Len(specs) THEN [err |-> "nil", remotes |-> acc, flags |-> flags]
    ELSE LET r == DecodeRemote(specs[i])
         IN  IF ~r.ok THEN [err |-> "remote", remotes |-> <<>>, flags |-> flags]
             ELSE IF r.Stdio /\ flags.hasStdio
             THEN [err |-> "stdio", remotes |-> <<>>, flags |-> flags]
             ELSE ProcessRemotes(specs, i + 1, Append(acc, r),
                      [hasReverse |-> flags.hasReverse \/ r.Reverse,
                       hasSocks |-> flags.hasSocks \/ r.Socks,
                       hasStdio |-> flags.hasStdio \/ r.Stdio])

\* NewClient returns (nil, err); c.MaxRetryInterval was already replaced
Failed(e, mri) ==
    [called |-> TRUE, err |-> e, client |-> FALSE, scheme |-> <<>>, host |-> <<>>,
     remotes |-> <<>>, maxRetryInterval |-> mri, proxy |-> <<>>,
     outbound |-> FALSE, socks |-> FALSE]

\* NewClient
NewClient(c) ==
    LET server == IF ~HasPrefix(c.Server, HTTP) THEN HTTP \o <<":", "/", "/">> \o c.Server
                  ELSE c.Server
        mri == EffectiveMaxRetryInterval(c.MaxRetryInterval)
        u == ParseURL(server)
        host == IF ~HasPort(u.host)
                THEN IF u.scheme = HTTP \o <<"s">> \/ u.scheme = <<"w", "s", "s">>
                     THEN u.host \o <<":", "4", "4", "3">>
                     ELSE u.host \o <<":", "8", "0">>
                ELSE u.host
        scheme == ReplaceFirst(u.scheme, HTTP, <<"w", "s">>)
        rs == ProcessRemotes(c.Remotes, 1, <<>>, NoFlags)
        p == ParseURL(c.Proxy)
    IN  IF ~u.ok THEN Failed("server", mri)
        ELSE IF rs.err # "nil" THEN Failed(rs.err, mri)
        ELSE IF c.Proxy # <<>> /\ ~p.ok THEN Failed("proxy", mri)
        ELSE [called |-> TRUE, err |-> "nil", client |-> TRUE, scheme |-> scheme,
              host |-> host, remotes |-> rs.remotes, maxRetryInterval |-> mri,
              proxy |-> (IF c.Proxy # <<>> THEN p.scheme ELSE <<>>),
              outbound |-> rs.flags.hasReverse,
              socks |-> rs.flags.hasReverse /\ rs.flags.hasSocks]

\* Client.verifyServer: the error it returns, <<>> for nil
VerifyServerError(expect, got) ==
    IF VerifyServer(expect, got) THEN <<>>
    ELSE InvalidFingerprint \o got \o <<")">>

\* lists of remote specs of at most n entries
RECURSIVE RemoteLists(_)
RemoteLists(n) ==
    IF n = 0 THEN {<<>>}
    ELSE LET shorter == RemoteLists(n - 1)
         IN  shorter \cup {Append(l, r) : l \in shorter, r \in RawRemotes}

\* the configurations handed to NewClient
CtorInit ==
    /\ input \in [Server : Servers,
                  MaxRetryInterval : CtorIntervals,
                  Remotes : RemoteLists(MaxRemotes),
                  Proxy : Proxies,
                  Fingerprint : ExpectedFingerprints,
                  Key : {<<>>}]
    /\ built = NotBuilt /\ verified = NotVerified
    /\ config = [MaxRetryCount |-> -1,
                 MaxRetryInterval |-> input.MaxRetryInterval,
                 Proxy |-> <<>>, Fingerprint |-> input.Fingerprint]
    /\ stop = FALSE
    /\ callerDone = FALSE /\ stopDone = FALSE /\ egDone = FALSE
    /\ egErr = "nil"
    /\ loopPc = "off" /\ loopErr = "none"
    /\ bindPc = "off"
    /\ waitPc = "idle" /\ waitErr = "none"
    /\ connected = FALSE /\ retry = FALSE /\ err = "nil"
    /\ attempt = 0 /\ delay = 0
    /\ attemptScopes = 0 /\ sshOpen = 0 /\ sessions = 0
    /\ bindCalled = FALSE
    /\ fails = 0 /\ prevDelay = 0 /\ resetFrom = -1 /\ lateDials = 0
    /\ closeRet = "none"

runVars == <<stop, callerDone, stopDone, egDone, egErr, loopPc, loopErr,
             bindPc, waitPc, waitErr, connected, retry, err, attempt, delay,
             attemptScopes, sshOpen, sessions, bindCalled, fails, prevDelay, resetFrom,
             lateDials, closeRet>>

\* NewClient is called with the configuration, which it updates in place
NewClientCall ==
    /\ ~built.called
    /\ built' = NewClient(input)
    /\ config' = [config EXCEPT !.MaxRetryInterval = built'.maxRetryInterval,
                                !.Proxy = built'.proxy]
    /\ UNCHANGED <<input, verified, runVars>>

\* the handshake calls verifyServer of the constructed client with a key
VerifyServerCall ==
    /\ built.called /\ built.client
    /\ ~verified.called
    /\ \E key \in PresentedKeys :
          /\ input' = [input EXCEPT !.Key = key]
          /\ verified' = [called |-> TRUE,
                          err |-> VerifyServerError(input.Fingerprint, key)]
    /\ UNCHANGED <<config, built, runVars>>

CtorNext ==
    \/ NewClientCall
    \/ VerifyServerCall

CtorSpec == CtorInit /\ [][CtorNext]_vars

\* Scheduling: the loop's own steps and timers always proceed; a blocking call
\* is only known to return once the shared scope is cancelled.
Fairness ==
    /\ WF_vars(OnceCheck) /\ WF_vars(PrepareDial) /\ WF_vars(Decide)
    /\ WF_vars(SleepTimer) /\ WF_vars(GiveUpClose) /\ WF_vars(WaitReturn)
    /\ WF_vars(ctxDone /\ DialReturn)
    /\ WF_vars(ctxDone /\ HandshakeReturn)
    /\ WF_vars(ctxDone /\ ConfigReply)
    /\ WF_vars(ctxDone /\ BindReturn)
    /\ WF_vars(ctxDone /\ BinderReturn)

FairSpec == Init /\ [][Next]_vars /\ Fairness

\* ------------------------------------------------------------------ claims

\* C1: attempts are strictly sequential: at most one attempt scope, one secure
\* connection and one session exist, and whenever connectionOnce is about to
\* be entered or is about to dial, nothing of a previous attempt is left.
C1_Sequential ==
    /\ attemptScopes <= 1 /\ sshOpen <= 1 /\ sessions <= 1
    /\ loopPc = "once" => (attemptScopes = 0 /\ sshOpen = 0 /\ sessions = 0)
    /\ loopPc \in {"prepare", "dialing"} =>
          (attemptScopes = 1 /\ sshOpen = 0 /\ sessions = 0)

\* a session runs in an attempt that followed an earlier one
C1_Witness == loopPc = "bound" /\ sessions = 1 /\ attempt >= 1

\* C2 as stated: once the shared scope is cancelled no transport dial is
\* started any more.
C2_NoDialAfterCancel == lateDials = 0

\* C2 amended: an attempt that begins after the cancellation returns (false,
\* false, EOF) without dialing; a cancellation seen by the backoff select ends
\* the loop with nil; and while the scope is cancelled a dial can only be
\* issued by an attempt that had passed its check before.
C2_NoDialInAttemptBegunAfterCancel ==
    /\ [][(loopPc = "once" /\ ctxDone /\ loopPc' # "once") =>
            (/\ loopPc' = "decide"
             /\ ~connected' /\ ~retry' /\ err' = "EOF"
             /\ attemptScopes' = 0
             /\ lateDials' = lateDials)]_vars
    /\ [][(loopPc = "sleep" /\ loopPc' = "done") =>
            (ctxDone /\ loopErr' = "nil" /\ lateDials' = lateDials)]_vars
    /\ [][(ctxDone /\ loopPc # "prepare") => lateDials' = lateDials]_vars
    /\ [](lateDials <= 1)

\* an attempt that began after the cancellation has returned
C2_Witness == loopPc = "decide" /\ err = "EOF" /\ ctxDone /\ attempt >= 1

\* C3: connectionLoop returns nil on every path, and Wait never returns an
\* error of a connection attempt.
C3_LoopReturnsNil ==
    /\ loopPc = "done" => loopErr = "nil"
    /\ loopErr \in {"none", "nil"}
    /\ egErr \in {"nil", "bind"}
    /\ waitPc = "returned" => waitErr \in {"nil", "bind"}

\* the loop gave up on a failed attempt and Wait returned
C3_Witness ==
    /\ loopPc = "done" /\ waitPc = "returned" /\ waitErr = "nil"
    /\ err \in {"auth", "dial", "config_reject"}

\* C4: under the scheduling above, once the shared scope is cancelled by Close
\* the loop and the binder end, and a pending Wait returns.
C4_CloseLeadsToReturn ==
    /\ stopDone ~> (loopPc = "done" /\ bindPc = "done")
    /\ (stopDone /\ waitPc = "waiting") ~> (waitPc = "returned")

\* Close was called while a session was being processed
C4_Witness == stopDone /\ loopPc = "bound" /\ waitPc = "waiting"

\* C5: with a budget N >= 0 there are never more than N+1 consecutive attempts
\* short of Connected, and after the (N+1)-th the loop stops.
C5_RetryBudget ==
    config.MaxRetryCount >= 0 =>
        /\ fails <= config.MaxRetryCount + 1
        /\ (fails = config.MaxRetryCount + 1 /\ loopPc # "decide") =>
              loopPc \in {"giveup", "done"}

\* three retriable failures in a row exhausted a budget of two, uncancelled
C5_Witness ==
    /\ config.MaxRetryCount = 2 /\ fails = 3 /\ loopPc = "giveup"
    /\ retry /\ ~ctxDone

\* C6: within a run of failures the delays do not decrease, and no delay
\* exceeds the maximum retry interval in effect.
C6_BackoffMonotone ==
    /\ prevDelay <= delay
    /\ delay <= config.MaxRetryInterval

\* the cap was reached after growing delays
C6_Witness ==
    /\ loopPc = "sleep" /\ prevDelay >= 8 /\ prevDelay < delay
    /\ delay = config.MaxRetryInterval

\* C7: the delay computed after an attempt that reached Connected is the
\* delay of a first attempt, the counter having been reset.
C7_ResetAfterConnected ==
    (loopPc = "sleep" /\ resetFrom >= 0) =>
        (delay = ForAttempt(0, config.MaxRetryInterval) /\ delay = BackoffMin
         /\ attempt = 1)

\* the reset followed at least two counted failures
C7_Witness == loopPc = "sleep" /\ resetFrom >= 2 /\ delay = BackoffMin

\* C8: classification of a failed dial or handshake.
C8_HandshakeClassification ==
    (loopPc = "decide" /\ ~bindCalled) =>
        /\ err = "auth" => (~connected /\ ~retry)
        /\ err = "net_perm" => (~connected /\ ~retry)
        /\ err \in {"net_temp", "other", "fingerprint"} => (~connected /\ retry)
        /\ err = "dial" => (~connected /\ retry)

\* a handshake failed with a non-temporary network error
C8_Witness == loopPc = "decide" /\ ~bindCalled /\ err = "net_perm" /\ attempt >= 1

\* C9 as stated: after a handshake that failed on a fingerprint mismatch the
\* loop stops.
C9_FingerprintMismatchFatal ==
    [][(loopPc = "decide" /\ err = "fingerprint") =>
          loopPc' \in {"decide", "giveup"}]_vars

\* C10: a failed negotiation is not connected and not retriable, BindSSH was
\* not invoked, the backoff counter is left alone and the loop stops.
C10_NegotiationFatal ==
    /\ []((loopPc \in {"decide", "giveup", "done"}
           /\ err \in {"config_send", "config_reject"}) =>
              (~connected /\ ~retry /\ ~bindCalled /\ sshOpen = 0))
    /\ [][(loopPc = "decide" /\ err \in {"config_send", "config_reject"}) =>
            (loopPc' \in {"decide", "giveup"} /\ attempt' = attempt)]_vars
    /\ [][loopPc = "giveup" => loopPc' \in {"giveup", "done"}]_vars

\* the remote rejected the configuration after earlier failures
C10_Witness == loopPc = "giveup" /\ err = "config_reject" /\ attempt >= 2

\* C11: the two tasks form one group with one scope: an error returned by a
\* task cancels the scope, the first error is kept, and Wait returns it once
\* both tasks are over.
C11_GroupJoin ==
    /\ [](egErr # "nil" => (egDone /\ ctxDone))
    /\ [](waitPc = "returned" =>
            (loopPc = "done" /\ bindPc = "done" /\ waitErr = egErr))
    /\ [][egErr # "nil" => egErr' = egErr]_vars
    /\ [][(bindPc = "running" /\ bindPc' = "done" /\ ~ctxDone /\ ~ctxDone') =>
            egErr' = "nil"]_vars

\* the binder failed while a session was running; the loop was stopped by the
\* cancelled scope and Wait returned the binder's error
C11_Witness ==
    /\ waitPc = "returned" /\ waitErr = "bind"
    /\ ~stopDone /\ ~callerDone /\ bindCalled

\* C18: when the session processor has returned, the attempt is reported as
\* connected and is non-retriable exactly for a non-temporary network error;
\* after every other result, nil included, the loop goes to its backoff sleep
\* unless the retry budget (MaxRetryCount = 0) stops it.
C18_AfterSession ==
    /\ []((loopPc = "decide" /\ bindCalled) =>
            (connected /\ (retry <=> err # "net_perm")))
    /\ [][(loopPc = "decide" /\ bindCalled /\ loopPc' # "decide") =>
            /\ loopPc' \in {"sleep", "giveup"}
            /\ loopPc' = "sleep" <=> (err # "net_perm" /\ config.MaxRetryCount # 0)]_vars

\* a session ended with no error at all and is to be retried
C18_Witness ==
    /\ loopPc = "decide" /\ bindCalled /\ err = "nil" /\ retry
    /\ config.MaxRetryCount = 2

\* C19: no secure connection and no attempt scope outlives its attempt:
\* outside connectionOnce, so at the start of every attempt and when the loop
\* has stopped, none is open.
C19_NoLeak ==
    /\ loopPc \in {"off", "once", "decide", "sleep", "giveup", "done"} =>
          (sshOpen = 0 /\ attemptScopes = 0 /\ sessions = 0)
    /\ loopPc \in {"negotiating", "bound"} => (sshOpen = 1 /\ attemptScopes = 1)

\* the next attempt is about to begin after an attempt that ran a session
C19_Witness ==
    loopPc = "once" /\ bindCalled /\ attempt = 1 /\ sshOpen = 0 /\ ~ctxDone

\* C20: a loop that gave up has cancelled the client's scope by the time it
\* returns, so the binder never runs on in an open scope after the loop ended.
C20_GiveUpCloses ==
    /\ [](loopPc = "done" => ctxDone)
    /\ []((loopPc = "done" /\ bindPc = "running") => ctxDone)
    /\ [][(loopPc = "giveup" /\ loopPc' = "done") =>
            (stopDone' /\ loopErr' = "nil")]_vars

\* the loop gave up on its own: nothing but its Close cancelled the scope,
\* and the binder has not returned yet
C20_Witness ==
    /\ loopPc = "done" /\ stopDone /\ ~callerDone /\ ~egDone
    /\ bindPc = "running" /\ err \in {"auth", "dial"}

\* C12: Close never blocks, never panics and returns nil in every lifecycle
\* state; before Start it changes nothing, after Start it cancels the shared
\* scope, which then stays cancelled however often Close is called again.
C12_CloseIdempotent ==
    /\ [](ENABLED Close)
    /\ [](closeRet \in {"none", "nil"})
    /\ [](~stop => (~stopDone /\ loopPc = "off" /\ bindPc = "off"))
    /\ [][stopDone => stopDone']_vars
    /\ [][closeRet' # closeRet =>
            (/\ stopDone' = stop
             /\ UNCHANGED <<config, stop, callerDone, egDone, egErr, loopPc, loopErr,
                            bindPc, waitPc, waitErr, attempt, sshOpen, sessions>>)]_vars

\* Close was called before Start and returned; the client, started
\* afterwards, runs in an open scope
C12_Witness == closeRet = "nil" /\ stop /\ ~stopDone /\ loopPc = "dialing"

\* remote specs of a list that decode to a stdio remote
StdioEntries(specs) ==
    {i \in 1..Len(specs) : DecodeRemote(specs[i]).ok /\ DecodeRemote(specs[i]).Stdio}

\* C13 as stated: every configuration error, an unsupported SOCKS-like proxy
\* scheme included, makes NewClient return an error and no client.
C13_ConfigErrorsAtConstruction ==
    built.called =>
        ((\/ ~ParseURL(IF HasPrefix(input.Server, HTTP) THEN input.Server
                       ELSE HTTP \o <<":", "/", "/">> \o input.Server).ok
          \/ \E i \in 1..Len(input.Remotes) : ~DecodeRemote(input.Remotes[i]).ok
          \/ Cardinality(StdioEntries(input.Remotes)) >= 2
          \/ (input.Proxy # <<>> /\ ~ParseURL(input.Proxy).ok)
          \/ (input.Proxy # <<>> /\ ~SetProxyOK(ParseURL(input.Proxy).scheme)))
         => (built.err # "nil" /\ ~built.client))

\* C14 as stated: in every client that is constructed from a server string
\* without a scheme, the endpoint has the plain web-socket scheme and a host
\* with an explicit port.
C14_DefaultSchemeAndPort ==
    (built.called /\ built.client /\ ~Contains(input.Server, <<":", "/", "/">>)) =>
        (/\ built.scheme = <<"w", "s">>
         /\ HasPort(built.host)
         /\ Len(built.host) > 3)

\* C15: two or more stdio remotes make the construction fail with no client
\* and no remotes; with at most one, and specs that all decode, an otherwise
\* valid configuration is accepted with the remotes in input order.
C15_OneStdio ==
    built.called =>
        /\ Cardinality(StdioEntries(input.Remotes)) >= 2 =>
              (built.err # "nil" /\ ~built.client /\ built.remotes = <<>>)
        /\ (/\ Cardinality(StdioEntries(input.Remotes)) <= 1
            /\ \A i \in 1..Len(input.Remotes) : DecodeRemote(input.Remotes[i]).ok
            /\ input.Server # <<"h","t","t","p",":","/","/","e","x",":","x">>
            /\ input.Proxy # <<"1","0",".","0",".","0",".","1",":","3","1","2","8">>) =>
              (/\ built.err = "nil" /\ built.client
               /\ Len(built.remotes) = Len(input.Remotes)
               /\ \A i \in 1..Len(input.Remotes) :
                     built.remotes[i].spec = input.Remotes[i])

\* a second stdio remote after another remote was refused
C15_Witness ==
    /\ built.called /\ built.err = "stdio" /\ ~built.client
    /\ input.Remotes = <<"stdio:ex:22", "3000", "stdio:ex:22">>

\* C16: a configured ceiling below one second becomes five minutes, any other
\* is kept; it is the ceiling the loop's backoff is made with.
C16_DefaultCeiling ==
    /\ built.called =>
          /\ input.MaxRetryInterval < 10 => built.maxRetryInterval = 3000
          /\ input.MaxRetryInterval >= 10 =>
                built.maxRetryInterval = input.MaxRetryInterval
    /\ (built.called /\ built.client) =>
          config.MaxRetryInterval =
             (IF input.MaxRetryInterval < 10 THEN 3000 ELSE input.MaxRetryInterval)

\* a negative ceiling was replaced in a client that was constructed
C16_Witness ==
    /\ built.called /\ built.client
    /\ input.MaxRetryInterval = -10 /\ built.maxRetryInterval = 3000

\* C17: verifyServer returns nil exactly when the expected fingerprint is
\* empty or a prefix of the presented one; its error contains the presented
\* fingerprint.
C17_VerifyServer ==
    verified.called =>
        /\ verified.err = <<>> <=>
              (\/ input.Fingerprint = <<>>
               \/ (/\ Len(input.Fingerprint) <= Len(input.Key)
                   /\ \A i \in 1..Len(input.Fingerprint) :
                         input.Key[i] = input.Fingerprint[i]))
        /\ verified.err # <<>> => Contains(verified.err, input.Key)
        /\ (input.Fingerprint = <<"a","b",":","c","d">> /\ input.Key = <<"a","b",":","c","d",":","e","f",":","0","0">>)
              => verified.err = <<>>

\* the key "zz:zz" was refused for the expected "ab:cd"
C17_Witness ==
    /\ verified.called /\ input.Fingerprint = <<"a","b",":","c","d">>
    /\ input.Key = <<"z","z",":","z","z">>
    /\ Contains(verified.err, <<"z","z",":","z","z">>)

====
